---- MODULE Spec2Model ----
(***************************************************************************)
(* A model of virheat/scripts/data_prep.py: VCF parsing (read_vcf,         *)
(* extract_vcf_data), the frequency matrix (create_freq_array), coverage   *)
(* masking (annotate_non_covered_regions), the column filters              *)
(* (delete_common_mutations, delete_n_mutations) and the gene track layout *)
(* (create_track_dict).                                                    *)
(*                                                                         *)
(* Conventions.  Python lists are sequences (1-based here, 0-based there). *)
(* Allele frequencies are kept in tenths (0.3 is 3), so that the code's    *)
(* 0.5 is 5 and every comparison is an integer comparison.  A MutationId,  *)
(* the string "POS_REF_ALT_TYPE", is the tuple <<POS, REF, ALT, TYPE>>;    *)
(* int(x.split("_")[0]) is its first component.  A text field that the     *)
(* code splits on "," is the sequence of its parts.                        *)
(***************************************************************************)
EXTENDS Integers, Sequences, FiniteSets, TLC

VARIABLES
    pc,                 \* which call has been made last
    frequency_array,    \* the matrix the caller holds (rows = samples)
    unique_mutations,   \* the mutation axis, one list object shared by all stages
    call,               \* the last filter call: its arguments before and after
    orig,               \* the matrix and axis the filter stage started from
    gff3_info,          \* the annotation index: the set of its features
    annotation_type,    \* the feature types asked for
    gene_dict,          \* create_track_dict's layout, in the dict's order
    n_tracks,           \* create_track_dict's track count
    coverage_files,     \* the .tsv files of coverage_dir: base name and rows
    min_coverage,       \* the coverage threshold
    vcf_files,          \* the VCF files given, in input order
    threshold,          \* extract_vcf_data's minimum frequency
    vcf_dict,           \* what read_vcf returned last
    extracted           \* how extract_vcf_data ended, and what it returned

vars == <<pc, frequency_array, unique_mutations, call, orig,
          gff3_info, annotation_type, gene_dict, n_tracks,
          coverage_files, min_coverage,
          vcf_files, threshold, vcf_dict, extracted>>

\* the value of a variable that the stage at hand does not use
Unused == <<>>

FilterUnused == call = [op |-> "none"] /\ orig = Unused
TrackUnused ==
    /\ gff3_info = Unused /\ annotation_type = Unused
    /\ gene_dict = Unused /\ n_tracks = 0
MaskUnused == coverage_files = Unused /\ min_coverage = 0
VcfUnused ==
    /\ vcf_files = Unused /\ threshold = 0
    /\ vcf_dict = Unused /\ extracted = Unused

(***************************************************************************)
(* Bounds of the model, and the constants and input names it uses.         *)
(***************************************************************************)
MaxMuts == 3
MaxPos == 3
MaxRows == 2
MaxLines == 2

\* the input files' base names, in input order: one sample, one matrix row, each
SampleFiles == <<"s1", "s2">>

\* 0.5 of line 242, in tenths
MaxDiffTenths == 5

Freqs == {0, 3, 9}

\* np.NAN of line 221, which no frequency equals
NaN == -1

\* the None of line 114, which no INFO value equals
None == -2

\* the reference sequence asked for, and another one
reference == "ref"
OtherChr == "other"

NoCall == [op |-> "none"]

(***************************************************************************)
(* Helpers standing for Python built-ins.                                  *)
(***************************************************************************)
RECURSIVE SeqMax(_), SeqMin(_)
SeqMax(s) ==
    IF Len(s) = 1 THEN s[1]
    ELSE LET m == SeqMax(Tail(s)) IN IF s[1] > m THEN s[1] ELSE m

SeqMin(s) ==
    IF Len(s) = 1 THEN s[1]
    ELSE LET m == SeqMin(Tail(s)) IN IF s[1] < m THEN s[1] ELSE m

\* del lst[idx]
DelAt(lst, idx) == [k \in 1..(Len(lst) - 1) |-> IF k < idx THEN lst[k] ELSE lst[k + 1]]

\* for idx in lst (ascending): del lst[idx], each deletion shifting what follows
RECURSIVE del_ascending(_, _)
del_ascending(lst, idxs) ==
    IF idxs = <<>> THEN lst
    ELSE IF idxs[1] > Len(lst) THEN del_ascending(lst, Tail(idxs))
    ELSE del_ascending(DelAt(lst, idxs[1]), Tail(idxs))

\* for idx in sorted(mut_to_del, reverse=True): del unique_mutations[idx]
\* (mut_to_del is built in ascending order, so its reverse is its last-first walk)
RECURSIVE del_reverse_sorted(_, _)
del_reverse_sorted(lst, idxs) ==
    IF idxs = <<>> THEN lst
    ELSE del_reverse_sorted(DelAt(lst, idxs[Len(idxs)]), SubSeq(idxs, 1, Len(idxs) - 1))

InSeq(x, s) == \E k \in 1..Len(s) : s[k] = x

\* np.delete(row, idxs) on one row: a new row without the listed columns
RECURSIVE KeepCols(_, _, _)
KeepCols(row, idxs, j) ==
    IF j > Len(row) THEN <<>>
    ELSE IF InSeq(j, idxs) THEN KeepCols(row, idxs, j + 1)
    ELSE <<row[j]>> \o KeepCols(row, idxs, j + 1)

\* a plausible slip: only the first listed column is removed
np_delete_first_only(arr, idxs) ==
    [i \in 1..Len(arr) |->
        KeepCols(arr[i], IF idxs = <<>> THEN <<>> ELSE <<idxs[1]>>, 1)]

\* np.delete(frequency_array, mut_to_del, axis=1): a copy, the argument is untouched
np_delete(arr, idxs) == [i \in 1..Len(arr) |-> KeepCols(arr[i], idxs, 1)]

(***************************************************************************)
(* delete_common_mutations, lines 226-248                                  *)
(***************************************************************************)
\* check_all of lines 234-236: column idx, top to bottom
check_all(arr, idx) == [i \in 1..Len(arr) |-> arr[i][idx]]

AllZero(col) == \A i \in 1..Len(col) : col[i] = 0
AllPositive(col) == \A i \in 1..Len(col) : col[i] > 0

\* lines 238-243
IsCommon(col) ==
    \/ AllZero(col)
    \/ AllPositive(col) /\ SeqMax(col) - SeqMin(col) < MaxDiffTenths

\* a plausible slip: the index appended is one past the column tested
RECURSIVE common_to_del_shifted(_, _)
common_to_del_shifted(arr, idx) ==
    IF idx > Len(arr[1]) THEN <<>>
    ELSE IF IsCommon(check_all(arr, idx)) /\ idx < Len(arr[1])
         THEN <<idx + 1>> \o common_to_del_shifted(arr, idx + 1)
         ELSE common_to_del_shifted(arr, idx + 1)

\* the loop of lines 233-243, from column idx on: mut_to_del
RECURSIVE common_to_del(_, _)
common_to_del(arr, idx) ==
    IF idx > Len(arr[1]) THEN <<>>
    ELSE IF IsCommon(check_all(arr, idx))
         THEN <<idx>> \o common_to_del(arr, idx + 1)
         ELSE common_to_del(arr, idx + 1)

\* the whole call: what it returns, and its two arguments as they are afterwards
delete_common_mutations(arr, muts) ==
    LET mut_to_del == common_to_del(arr, 1) IN
    [ret |-> np_delete(arr, mut_to_del),
     frequency_array |-> arr,
     unique_mutations |-> del_reverse_sorted(muts, mut_to_del)]

(***************************************************************************)
(* delete_n_mutations, lines 251-269                                       *)
(***************************************************************************)
\* lines 258-261
n_mutations(col) == Cardinality({i \in 1..Len(col) : col[i] > 0})

\* the loop of lines 257-264
RECURSIVE n_to_del(_, _, _)
n_to_del(arr, min_mut, idx) ==
    IF idx > Len(arr[1]) THEN <<>>
    ELSE IF n_mutations(check_all(arr, idx)) <= min_mut
         THEN <<idx>> \o n_to_del(arr, min_mut, idx + 1)
         ELSE n_to_del(arr, min_mut, idx + 1)

delete_n_mutations(arr, muts, min_mut) ==
    LET mut_to_del == n_to_del(arr, min_mut, 1) IN
    [ret |-> np_delete(arr, mut_to_del),
     frequency_array |-> arr,
     unique_mutations |-> del_reverse_sorted(muts, mut_to_del)]

(***************************************************************************)
(* The filter stage: a caller that holds an aligned matrix and axis and    *)
(* applies the two filters in any order, rebinding its matrix to what the  *)
(* call returns.                                                           *)
(***************************************************************************)
\* an axis sorted by position, with ties between alleles of one position
AxisOf(n) ==
    [j \in 1..n |-> <<10 * ((j + 1) \div 2), "A", IF j % 2 = 1 THEN "T" ELSE "G", "SNV">>]

Matrices(r, c) == [1..r -> [1..c -> Freqs]]

InitFilter ==
    /\ pc = "filter"
    /\ \E r \in 1..Len(SampleFiles), c \in 1..MaxMuts :
          /\ frequency_array \in Matrices(r, c)
          /\ unique_mutations = AxisOf(c)
    /\ call = NoCall
    /\ orig = [array |-> frequency_array, mutations |-> unique_mutations]
    /\ TrackUnused
    /\ MaskUnused
    /\ VcfUnused

Record(op, min_mut, res) ==
    [op |-> op, min_mut |-> min_mut,
     array_before |-> frequency_array,
     mutations_before |-> unique_mutations,
     array_after |-> res.frequency_array,
     mutations_after |-> res.unique_mutations,
     ret |-> res.ret]

DeleteCommon ==
    /\ pc = "filter"
    /\ LET res == delete_common_mutations(frequency_array, unique_mutations) IN
          /\ frequency_array' = res.ret
          /\ unique_mutations' = res.unique_mutations
          /\ call' = Record("common", 0, res)
    /\ UNCHANGED <<pc, orig, gff3_info, annotation_type, gene_dict, n_tracks,
                   coverage_files, min_coverage, vcf_files, threshold,
                   vcf_dict, extracted>>

DeleteN ==
    /\ pc = "filter"
    /\ \E min_mut \in 0..Len(SampleFiles) :
          LET res == delete_n_mutations(frequency_array, unique_mutations, min_mut) IN
             /\ frequency_array' = res.ret
             /\ unique_mutations' = res.unique_mutations
             /\ call' = Record("n", min_mut, res)
    /\ UNCHANGED <<pc, orig, gff3_info, annotation_type, gene_dict, n_tracks,
                   coverage_files, min_coverage, vcf_files, threshold,
                   vcf_dict, extracted>>

NextFilter == DeleteCommon \/ DeleteN

SpecFilter == InitFilter /\ [][NextFilter]_vars

(***************************************************************************)
(* create_track_dict, lines 346-399                                        *)
(***************************************************************************)
\* a feature of the index: gff3_info[type][id] with its attributes; name is
\* NoName when the feature has no "Name" attribute
NoName == "-"

\* lines 362-365
attribute_name(f) == IF f.name # NoName THEN f.name ELSE f.id

\* lines 353-371: the set of (name, start, stop, strand) of the features of a
\* requested type with a mutation in range(start, stop)
genes_with_mutations(muts, info, types) ==
    {<<attribute_name(f), f.start, f.stop, f.strand>> :
        f \in {g \in info :
                 /\ InSeq(g.type, types)
                 /\ \E m \in 1..Len(muts) :
                       g.start <= muts[m][1] /\ muts[m][1] < g.stop}}

\* the orders in which iterating a Python set may yield its elements
RECURSIVE IterationOrders(_)
IterationOrders(S) ==
    IF S = {} THEN {<<>>}
    ELSE UNION {{<<x>> \o o : o \in IterationOrders(S \ {x})} : x \in S}

\* line 377: {element[0]: [element[1:4]] for element in ...}: a later element
\* with a name already there overwrites its value and keeps its place
RECURSIVE dict_comprehension(_, _)
dict_comprehension(elems, d) ==
    IF elems = <<>> THEN d
    ELSE LET e == elems[1]
             item == [name |-> e[1], start |-> e[2], stop |-> e[3], strand |-> e[4]]
         IN  IF \E k \in 1..Len(d) : d[k].name = e[1]
             THEN dict_comprehension(Tail(elems),
                     [k \in 1..Len(d) |-> IF d[k].name = e[1] THEN item ELSE d[k]])
             ELSE dict_comprehension(Tail(elems), Append(d, item))

\* "+" < "-" as Python compares the strings
StrandRank(x) == IF x = "+" THEN 0 ELSE 1

\* the sort key x[1][0] of line 378 is the tuple (start, stop, strand)
KeyLess(a, b) ==
    \/ a.start < b.start
    \/ a.start = b.start /\ a.stop < b.stop
    \/ a.start = b.start /\ a.stop = b.stop /\ StrandRank(a.strand) < StrandRank(b.strand)

\* put x behind every item of the sorted s whose key is not larger
RECURSIVE InsertSorted(_, _)
InsertSorted(s, x) ==
    IF s = <<>> THEN <<x>>
    ELSE IF KeyLess(x, s[1]) THEN <<x>> \o s
    ELSE <<s[1]>> \o InsertSorted(Tail(s), x)

\* a plausible slip: the dict is left in insertion order
sorted_items_unsorted(d) == d

\* line 378: sorted() is stable
RECURSIVE sorted_items(_)
sorted_items(d) ==
    IF d = <<>> THEN <<>>
    ELSE InsertSorted(sorted_items(SubSeq(d, 1, Len(d) - 1)), d[Len(d)])

\* a plausible slip: an if in place of the while, so that only the first
\* track's stop is looked at
find_track_first_only(start, track_stops, track) ==
    IF start < track_stops[track] THEN track + 1 ELSE track

\* lines 384-393, tracks counted from 1: the track the gene goes to;
\* Len(track_stops) + 1 stands for the track that line 392 appends
RECURSIVE find_track(_, _, _)
find_track(start, track_stops, track) ==
    IF start < track_stops[track]
    THEN IF Len(track_stops) <= track
         THEN track + 1
         ELSE find_track(start, track_stops, track + 1)
    ELSE track

\* lines 383-397 from gene i on; the track written to the dict counts from 0
RECURSIVE assign_tracks(_, _, _)
assign_tracks(genes, i, track_stops) ==
    IF i > Len(genes) THEN [gene_dict |-> genes, track_stops |-> track_stops]
    ELSE LET track == find_track(genes[i].start, track_stops, 1)
             stops == IF track > Len(track_stops)
                      THEN Append(track_stops, 0) ELSE track_stops
         IN  assign_tracks(
                [genes EXCEPT ![i] =
                    [name |-> genes[i].name, start |-> genes[i].start,
                     stop |-> genes[i].stop, strand |-> genes[i].strand,
                     track |-> track - 1]],
                i + 1,
                [stops EXCEPT ![track] = genes[i].stop])

\* the whole call, for one iteration order of the set
create_track_dict(muts, info, types, order) ==
    IF genes_with_mutations(muts, info, types) = {}
    THEN [gene_dict |-> <<>>, n_tracks |-> 0]
    ELSE LET laid == assign_tracks(sorted_items(dict_comprehension(order, <<>>)), 1, <<0>>)
         IN  [gene_dict |-> laid.gene_dict, n_tracks |-> Len(laid.track_stops)]

(***************************************************************************)
(* The layout stage.                                                       *)
(***************************************************************************)
GeneIds == {"g1", "g2", "g3"}
StrandOf(id) == IF id = "g3" THEN "-" ELSE "+"

\* what a feature's line of the GFF3 file may say: Name or not, start, stop
Shapes ==
    {sh \in [name : {NoName, "S"}, start : 1..MaxPos, stop : 1..MaxPos] :
        sh.start < sh.stop}

Feature(id, sh) ==
    [type |-> "gene", id |-> id, name |-> sh.name, start |-> sh.start,
     stop |-> sh.stop, strand |-> StrandOf(id)]

\* the axis of the mutations at the positions P, sorted by position
RECURSIVE AxisAt(_)
AxisAt(P) ==
    IF P = {} THEN <<>>
    ELSE LET p == CHOOSE x \in P : \A y \in P : x <= y
         IN  <<<<p, "A", "T", "SNV">>>> \o AxisAt(P \ {p})

InitTrack ==
    /\ pc = "track"
    /\ \E P \in SUBSET (1..MaxPos) : P # {} /\ unique_mutations = AxisAt(P)
    /\ \E pick \in [GeneIds -> Shapes] :
          gff3_info = {Feature(id, pick[id]) : id \in GeneIds}
    /\ annotation_type = <<"CDS", "gene">>
    /\ gene_dict = <<>>
    /\ n_tracks = 0
    /\ frequency_array = Unused
    /\ FilterUnused
    /\ MaskUnused
    /\ VcfUnused

CreateTrackDict ==
    /\ pc = "track"
    /\ \E order \in IterationOrders(
                       genes_with_mutations(unique_mutations, gff3_info, annotation_type)) :
          LET res == create_track_dict(unique_mutations, gff3_info, annotation_type, order)
          IN  /\ gene_dict' = res.gene_dict
              /\ n_tracks' = res.n_tracks
    /\ pc' = "track_done"
    /\ UNCHANGED <<frequency_array, unique_mutations, call, orig, gff3_info,
                   annotation_type, coverage_files, min_coverage, vcf_files,
                   threshold, vcf_dict, extracted>>

NextTrack == CreateTrackDict

SpecTrack == InitTrack /\ [][NextTrack]_vars

(***************************************************************************)
(* annotate_non_covered_regions, lines 202-223                             *)
(***************************************************************************)
\* df[df[col] == val]: the rows that match, in the table's order
RECURSIVE RowsWhere(_, _, _)
RowsWhere(rows, col, val) ==
    IF rows = <<>> THEN <<>>
    ELSE IF rows[1][col] = val
         THEN <<rows[1]>> \o RowsWhere(Tail(rows), col, val)
         ELSE RowsWhere(Tail(rows), col, val)

\* line 212: the base names of the tsv files
tsv_names(files) == {files[k].name : k \in 1..Len(files)}

\* line 215: the first tsv file with the sample's name; lines 216-217: its rows
\* for the reference
coverage_of(files, file_name, ref) ==
    LET k == CHOOSE x \in 1..Len(files) :
                /\ files[x].name = file_name
                /\ \A y \in 1..(x - 1) : files[y].name # file_name
    IN  RowsWhere(files[k].rows, "chr", ref)

\* line 220: the test that sends a cell to NaN
not_covered(coverage, mut_pos, frequency, min_cov) ==
    LET at == RowsWhere(coverage, "pos", mut_pos) IN
    \/ at = <<>>
    \/ frequency = 0 /\ at[1].coverage <= min_cov

\* lines 211-221 for one row
annotate_row(files, file_name, array, muts, min_cov, ref) ==
    IF file_name \notin tsv_names(files) THEN array
    ELSE LET coverage == coverage_of(files, file_name, ref) IN
         [j \in 1..Len(array) |->
             IF not_covered(coverage, muts[j][1], array[j], min_cov)
             THEN NaN ELSE array[j]]

\* the whole call: the array after it, which is also what the mask is made of
annotate_non_covered_regions(files, min_cov, arr, names, muts, ref) ==
    IF files = <<>> THEN arr
    ELSE [i \in 1..Len(arr) |->
             annotate_row(files, names[i], arr[i], muts, min_cov, ref)]

(***************************************************************************)
(* The masking stage.                                                      *)
(***************************************************************************)
CoverageRows ==
    [chr : {reference}, pos : {10, 20}, coverage : {2, 8}]
        \cup {[chr |-> OtherChr, pos |-> 10, coverage |-> 8]}

Tables == UNION {[1..n -> CoverageRows] : n \in 0..MaxRows}

\* the files that a choice of one table or none per sample stands for
RECURSIVE FilesOf(_, _)
FilesOf(choice, i) ==
    IF i > Len(SampleFiles) THEN <<>>
    ELSE IF choice[i].present
         THEN <<[name |-> SampleFiles[i], rows |-> choice[i].rows]>> \o FilesOf(choice, i + 1)
         ELSE FilesOf(choice, i + 1)

FileChoices ==
    [present : {TRUE}, rows : Tables] \cup {[present |-> FALSE, rows |-> <<>>]}

InitMask ==
    /\ pc = "mask"
    /\ unique_mutations = <<<<10, "A", "T", "SNV">>, <<20, "A", "G", "SNV">>>>
    /\ frequency_array \in [1..Len(SampleFiles) -> [1..2 -> {0, 3}]]
    /\ \E choice \in [1..Len(SampleFiles) -> FileChoices] :
          coverage_files = FilesOf(choice, 1)
    /\ min_coverage \in {1, 2}
    /\ orig = [array |-> frequency_array, mutations |-> unique_mutations]
    /\ call = NoCall
    /\ TrackUnused
    /\ VcfUnused

AnnotateNonCoveredRegions ==
    /\ pc = "mask"
    /\ frequency_array' =
          annotate_non_covered_regions(coverage_files, min_coverage, frequency_array,
                                       SampleFiles, unique_mutations, reference)
    /\ pc' = "mask_done"
    /\ UNCHANGED <<unique_mutations, call, orig, gff3_info, annotation_type,
                   gene_dict, n_tracks, coverage_files, min_coverage,
                   vcf_files, threshold, vcf_dict, extracted>>

NextMask == AnnotateNonCoveredRegions

SpecMask == InitMask /\ [][NextMask]_vars

(***************************************************************************)
(* Properties of the masking stage.                                        *)
(***************************************************************************)
\* the rows of sample i's table for the reference and the position of column j
EntriesAt(i, j) ==
    RowsWhere(coverage_of(coverage_files, SampleFiles[i], reference),
              "pos", unique_mutations[j][1])

\* C1 as stated: for every sample with a coverage table and every column, the
\* cell is masked exactly when its value is 0 and the table has no entry for the
\* position or an entry of depth <= min_coverage; a cell that is not masked, and
\* so every cell with a frequency > 0, keeps its value.
C1_MaskedIffZeroAndUncovered ==
    pc = "mask_done" =>
        \A i \in 1..Len(frequency_array) :
            SampleFiles[i] \in tsv_names(coverage_files) =>
                \A j \in 1..Len(unique_mutations) :
                    /\ frequency_array[i][j] = NaN <=>
                          /\ orig.array[i][j] = 0
                          /\ \/ EntriesAt(i, j) = <<>>
                             \/ EntriesAt(i, j)[1].coverage <= min_coverage
                    /\ orig.array[i][j] > 0 => frequency_array[i][j] = orig.array[i][j]

(***************************************************************************)
(* Properties of the layout stage.                                         *)
(***************************************************************************)
Entries == 1..Len(gene_dict)

\* the number of laid-out genes whose [start, stop) holds position p
DepthAt(p) == Cardinality({k \in Entries : gene_dict[k].start <= p /\ p < gene_dict[k].stop})

Covered == UNION {gene_dict[k].start..(gene_dict[k].stop - 1) : k \in Entries}

\* C3: no two genes with the same track index have overlapping [start, stop).
C3_NoOverlapInTrack ==
    pc = "track_done" =>
        \A a, b \in Entries :
            (a # b /\ gene_dict[a].track = gene_dict[b].track) =>
                \/ gene_dict[a].stop <= gene_dict[b].start
                \/ gene_dict[b].stop <= gene_dict[a].start

\* three genes in two tracks: two overlap, the third shares a track
C3_Witness ==
    /\ pc = "track_done" /\ Len(gene_dict) = 3 /\ n_tracks = 2
    /\ \E a, b \in Entries :
          /\ a # b /\ gene_dict[a].track # gene_dict[b].track
          /\ gene_dict[a].start < gene_dict[b].stop
          /\ gene_dict[b].start < gene_dict[a].stop
    /\ \E a, b \in Entries : a # b /\ gene_dict[a].track = gene_dict[b].track

\* C4: for a non-empty layout the track count is the largest number of laid-out
\* genes that share a position, and every track 0 .. n_tracks-1 holds a gene
\* (and no gene is in a track outside that range).
C4_TrackCountOptimal ==
    (pc = "track_done" /\ gene_dict # <<>>) =>
        /\ \E p \in Covered : DepthAt(p) = n_tracks
        /\ \A p \in Covered : DepthAt(p) <= n_tracks
        /\ \A t \in 0..(n_tracks - 1) : \E k \in Entries : gene_dict[k].track = t
        /\ \A k \in Entries : gene_dict[k].track \in 0..(n_tracks - 1)

\* three genes, all in one another's way: three tracks
C4_Witness ==
    /\ pc = "track_done" /\ Len(gene_dict) = 3 /\ n_tracks = 3
    /\ \E p \in Covered : DepthAt(p) = 3

\* C5 as stated: every distinct (name, start, stop, strand) of a requested type
\* with a mutation in [start, stop) has exactly one entry of the layout.
C5_OneEntryPerFeature ==
    pc = "track_done" =>
        \A g \in genes_with_mutations(unique_mutations, gff3_info, annotation_type) :
            Cardinality({k \in Entries :
                <<gene_dict[k].name, gene_dict[k].start, gene_dict[k].stop,
                  gene_dict[k].strand>> = g}) = 1

(***************************************************************************)
(* Properties of the filter stage.                                         *)
(***************************************************************************)
\* section 4.5's two column predicates, stated on a column of the matrix
ZeroOrCommon(col) ==
    \/ \A i \in DOMAIN col : col[i] = 0
    \/ /\ \A i \in DOMAIN col : col[i] > 0
       /\ \A i, k \in DOMAIN col : col[i] - col[k] < MaxDiffTenths

TooRare(col, min_mut) == Cardinality({i \in DOMAIN col : col[i] > 0}) <= min_mut

DroppedBy(c, j) ==
    LET col == [i \in 1..Len(c.array_before) |-> c.array_before[i][j]] IN
    IF c.op = "common" THEN ZeroOrCommon(col) ELSE TooRare(col, c.min_mut)

\* the entries of the axis passed in whose columns the call keeps, in order
KeptAxis(c) ==
    LET kept == {j \in 1..Len(c.mutations_before) : ~DroppedBy(c, j)}
        nth(k) == CHOOSE j \in kept : Cardinality({i \in kept : i < j}) = k - 1
    IN  [k \in 1..Cardinality(kept) |-> c.mutations_before[nth(k)]]

\* C7: the zero/common filter is idempotent: applied to the matrix and axis it
\* has just produced, it returns the same matrix and leaves the same axis.
C7_CommonIdempotent ==
    (pc = "filter" /\ call.op = "common") =>
        LET again == delete_common_mutations(frequency_array, unique_mutations) IN
           /\ again.ret = frequency_array
           /\ again.unique_mutations = unique_mutations

\* the filter has just removed a column and kept another
C7_Witness ==
    /\ pc = "filter" /\ call.op = "common"
    /\ Len(unique_mutations) < Len(call.mutations_before)
    /\ Len(unique_mutations) > 0

IndexIn(s, x) == CHOOSE k \in 1..Len(s) : s[k] = x

\* C10: after any sequence of the two filters the axis and the matrix stay
\* aligned: as many columns as axis entries, column j is the original column of
\* the mutation now at axis[j], the survivors keep their original order (so
\* the axis stays sorted by position), and an empty axis goes with a
\* zero-column matrix.
C10_Aligned ==
    pc = "filter" =>
        /\ Len(frequency_array) = Len(orig.array)
        /\ \A i \in 1..Len(frequency_array) :
              Len(frequency_array[i]) = Len(unique_mutations)
        /\ \A j \in 1..Len(unique_mutations) :
              /\ InSeq(unique_mutations[j], orig.mutations)
              /\ \A i \in 1..Len(frequency_array) :
                    frequency_array[i][j] =
                        orig.array[i][IndexIn(orig.mutations, unique_mutations[j])]
        /\ \A j, k \in 1..Len(unique_mutations) :
              j < k =>
                 /\ IndexIn(orig.mutations, unique_mutations[j])
                       < IndexIn(orig.mutations, unique_mutations[k])
                 /\ unique_mutations[j][1] <= unique_mutations[k][1]

\* two filters in a row have dropped the first two of three columns
C10_Witness ==
    /\ pc = "filter" /\ call.op # "none"
    /\ Len(orig.mutations) = 3
    /\ Len(call.mutations_before) = 2
    /\ unique_mutations = <<orig.mutations[3]>>

\* a filter applied to an axis that is already empty
C10_EmptyAxisReached ==
    /\ pc = "filter" /\ call.op # "none"
    /\ call.mutations_before = <<>>
    /\ \A i \in 1..Len(frequency_array) : frequency_array[i] = <<>>

(***************************************************************************)
(* read_vcf, lines 50-116                                                  *)
(*                                                                         *)
(* A file is [name, header, lines]: header says whether a line starts with *)
(* '#CHROM'.  A data line is [cols, info]: cols[1..6] are its first six    *)
(* tab fields, each the sequence of its comma-separated parts; info is the *)
(* sequence of the ';'-separated entries of field 8, each [eq, key, vals]: *)
(* eq says whether it holds a "=", vals are the comma-separated parts of   *)
(* what follows it.  Numbers stand for the text convert_string turns into  *)
(* them.                                                                   *)
(***************************************************************************)
\* header[0:6] of a file whose header line is the standard one
header6 == <<"#CHROM", "POS", "ID", "REF", "ALT", "QUAL">>

EmptyDict == [k \in {} |-> <<>>]

\* line 65: l.startswith(reference)
StartsWith(line, ref) == line.cols[1][1] = ref

RECURSIVE SelectLines(_, _)
SelectLines(lines, ref) ==
    IF lines = <<>> THEN <<>>
    ELSE IF StartsWith(lines[1], ref)
         THEN <<lines[1]>> \o SelectLines(Tail(lines), ref)
         ELSE SelectLines(Tail(lines), ref)

\* line 85
length_variants(line) == Len(line.cols[5])

\* the length of a field as written, commas included (len(line[3]))
RECURSIVE RawLen(_)
RawLen(parts) ==
    IF Len(parts) = 1 THEN Len(parts[1])
    ELSE Len(parts[1]) + 1 + RawLen(Tail(parts))

\* lines 86-92: sublines[i], or sublines[0] on IndexError
broadcast(sublines, k) ==
    [i \in 1..k |-> IF i <= Len(sublines) THEN sublines[i] ELSE sublines[1]]

\* lines 94-101
mut_types(line) ==
    [i \in 1..length_variants(line) |->
        LET ref_len == RawLen(line.cols[4])
            alt_len == Len(line.cols[5][i])
        IN  IF ref_len = alt_len THEN "SNV"
            ELSE IF ref_len < alt_len THEN "INS" ELSE "DEL"]

InfoEntries(line) == {line.info[e] : e \in 1..Len(line.info)}

\* lines 75-78: the keys of the INFO entries that hold a "="
info_keys(lines) ==
    {e.key : e \in {x \in UNION {InfoEntries(lines[l]) : l \in 1..Len(lines)} : x.eq}}

\* lines 105-111: the values a line appends under an INFO key
RECURSIVE info_values(_, _)
info_values(info, key) ==
    IF info = <<>> THEN <<>>
    ELSE IF info[1].eq /\ info[1].key = key
         THEN info[1].vals \o info_values(Tail(info), key)
         ELSE info_values(Tail(info), key)

\* lines 80-114: what one line appends to the column of a key
line_entries(line, key) ==
    IF \E idx \in 1..6 : header6[idx] = key
    THEN broadcast(line.cols[CHOOSE idx \in 1..6 : header6[idx] = key],
                   length_variants(line))
    ELSE IF key = "MUT_TYPE_" THEN mut_types(line)
    ELSE IF \E e \in InfoEntries(line) : e.eq /\ e.key = key
         THEN info_values(line.info, key)
         ELSE [i \in 1..length_variants(line) |-> None]

RECURSIVE fill(_, _)
fill(lines, key) ==
    IF lines = <<>> THEN <<>>
    ELSE line_entries(lines[1], key) \o fill(Tail(lines), key)

\* the whole call; {} for a file without a '#CHROM' line
read_vcf(vcf_file, ref) ==
    IF ~vcf_file.header THEN EmptyDict
    ELSE LET lines == SelectLines(vcf_file.lines, ref)
             keys == {header6[idx] : idx \in 1..6} \cup {"MUT_TYPE_"} \cup info_keys(lines)
         IN  [key \in keys |-> fill(lines, key)]

(***************************************************************************)
(* extract_vcf_data with scores=False, lines 119-156                       *)
(***************************************************************************)
\* lines 130-146 from record idx on, frequency_list being what is gathered so
\* far: the (MutationId, AF) pairs of a file, or the exception that ends the run
RECURSIVE frequency_list(_, _, _, _)
frequency_list(d, thr, idx, gathered) ==
    IF idx > Len(d["#CHROM"]) THEN [status |-> "ok", list |-> gathered]
    ELSE IF "AF" \notin DOMAIN d THEN [status |-> "KeyError", list |-> <<>>]
    ELSE IF idx > Len(d["AF"]) THEN [status |-> "IndexError", list |-> <<>>]
    ELSE IF d["AF"][idx] = None THEN [status |-> "TypeError", list |-> <<>>]
    ELSE IF ~(d["AF"][idx] >= thr) THEN frequency_list(d, thr, idx + 1, gathered)
    ELSE frequency_list(d, thr, idx + 1,
            Append(gathered,
                   <<<<d["POS"][idx], d["REF"][idx], d["ALT"][idx], d["MUT_TYPE_"][idx]>>,
                     d["AF"][idx]>>))

\* lines 124-148 from file i on, with the file_names and frequency_lists so far
RECURSIVE extract_files(_, _, _, _, _, _)
extract_files(files, ref, thr, i, file_names, frequency_lists) ==
    IF i > Len(files)
    THEN [status |-> "ok", file |-> 0, frequency_lists |-> frequency_lists,
          file_names |-> file_names]
    ELSE LET d == read_vcf(files[i], ref) IN
         IF "#CHROM" \notin DOMAIN d
         THEN [status |-> "KeyError", file |-> i, frequency_lists |-> <<>>,
               file_names |-> <<>>]
         ELSE LET fl == frequency_list(d, thr, 1, <<>>) IN
              IF fl.status # "ok"
              THEN [status |-> fl.status, file |-> i, frequency_lists |-> <<>>,
                    file_names |-> <<>>]
              ELSE extract_files(files, ref, thr, i + 1,
                                 Append(file_names, files[i].name),
                                 Append(frequency_lists, fl.list))

\* line 151: the set of the MutationIds of all lists
mutation_set(lists) ==
    UNION {{lists[i][k][1] : k \in 1..Len(lists[i])} : i \in 1..Len(lists)}

\* put x behind every id of the sorted s whose position is not larger
RECURSIVE InsertByPos(_, _)
InsertByPos(s, x) ==
    IF s = <<>> THEN <<x>>
    ELSE IF x[1] < s[1][1] THEN <<x>> \o s
    ELSE <<s[1]>> \o InsertByPos(Tail(s), x)

\* lines 150-152: sorted(set, key=position), stable, for one iteration order
RECURSIVE sorted_by_pos(_)
sorted_by_pos(order) ==
    IF order = <<>> THEN <<>>
    ELSE InsertByPos(sorted_by_pos(SubSeq(order, 1, Len(order) - 1)), order[Len(order)])

(***************************************************************************)
(* create_freq_array, lines 182-199                                        *)
(***************************************************************************)
\* a plausible slip: a tuple is matched by its position alone
RECURSIVE af_of_position(_, _)
af_of_position(list, mutation) ==
    IF list = <<>> THEN <<>>
    ELSE IF list[1][1][1] = mutation[1]
         THEN <<list[1][2]>> \o af_of_position(Tail(list), mutation)
         ELSE af_of_position(Tail(list), mutation)

\* line 192: af
RECURSIVE af_of(_, _)
af_of(list, mutation) ==
    IF list = <<>> THEN <<>>
    ELSE IF list[1][1] = mutation
         THEN <<list[1][2]>> \o af_of(Tail(list), mutation)
         ELSE af_of(Tail(list), mutation)

create_freq_array(muts, lists) ==
    [i \in 1..Len(lists) |->
        [j \in 1..Len(muts) |->
            LET af == af_of(lists[i], muts[j]) IN
            IF af # <<>> THEN af[1] ELSE 0]]

(***************************************************************************)
(* The parsing stage: read_vcf on one file.                                *)
(***************************************************************************)
Entry(key, vals) == [eq |-> TRUE, key |-> key, vals |-> vals]
Flag(text) == [eq |-> FALSE, key |-> text, vals |-> <<>>]

DataLine(chr, pos, ref, alt, info) ==
    [cols |-> <<<<chr>>, <<pos>>, <<".">>, <<ref>>, alt, <<".">>>>, info |-> info]

\* lines whose INFO values come one per ALT allele
PlainLines ==
    {DataLine(reference, 10, "A", <<"T">>, <<Entry("AF", <<3>>)>>),
     DataLine(reference, 10, "A", <<"T">>, <<Entry("AF", <<9>>)>>),
     DataLine(reference, 10, "A", <<"G">>, <<Entry("AF", <<9>>)>>),
     DataLine(reference, 20, "AT", <<"A", "ATG">>, <<Entry("AF", <<3, 9>>)>>),
     DataLine(OtherChr, 10, "A", <<"T">>, <<Entry("AF", <<9>>)>>)}

\* a line with one AF for two alleles
ShortAfLine == DataLine(reference, 20, "A", <<"T", "G">>, <<Entry("AF", <<3>>)>>)

\* lines with a depth given once, a flag, no AF
OtherLines ==
    {DataLine(reference, 20, "A", <<"T", "G">>,
              <<Entry("DP", <<10>>), Entry("AF", <<3, 9>>)>>),
     DataLine(reference, 10, "AT", <<"A">>, <<Entry("DP", <<10>>), Flag("INDEL")>>)}

LineSeqs(U) == UNION {[1..n -> U] : n \in 0..MaxLines}

InitVcf ==
    /\ pc = "read"
    /\ \E h \in BOOLEAN, ls \in LineSeqs(PlainLines \cup {ShortAfLine} \cup OtherLines) :
          vcf_files = <<[name |-> SampleFiles[1], header |-> h, lines |-> ls]>>
    /\ threshold = 0
    /\ vcf_dict = EmptyDict
    /\ extracted = Unused
    /\ frequency_array = Unused
    /\ unique_mutations = Unused
    /\ FilterUnused
    /\ TrackUnused
    /\ MaskUnused

ReadVcf ==
    /\ pc = "read"
    /\ vcf_dict' = read_vcf(vcf_files[1], reference)
    /\ pc' = "read_done"
    /\ UNCHANGED <<frequency_array, unique_mutations, call, orig, gff3_info,
                   annotation_type, gene_dict, n_tracks, coverage_files,
                   min_coverage, vcf_files, threshold, extracted>>

NextVcf == ReadVcf

SpecVcf == InitVcf /\ [][NextVcf]_vars

(***************************************************************************)
(* The matrix stage: extract_vcf_data over the files, then                 *)
(* create_freq_array on what it returned.                                  *)
(***************************************************************************)
\* a file without a header line, or one with a header and some lines
FileContents ==
    {[header |-> FALSE, lines |-> <<>>]}
        \cup [header : {TRUE}, lines : LineSeqs(PlainLines)]

InitFreq ==
    /\ pc = "extract"
    /\ \E c \in [1..Len(SampleFiles) -> FileContents] :
          vcf_files = [i \in 1..Len(SampleFiles) |->
                          [name |-> SampleFiles[i], header |-> c[i].header,
                           lines |-> c[i].lines]]
    /\ threshold \in {0, 5}
    /\ vcf_dict = Unused
    /\ extracted = Unused
    /\ frequency_array = Unused
    /\ unique_mutations = Unused
    /\ FilterUnused
    /\ TrackUnused
    /\ MaskUnused

\* lines 127-148 raise, or lines 153-154 leave by sys.exit
ExtractAborts ==
    /\ pc = "extract"
    /\ LET res == extract_files(vcf_files, reference, threshold, 1, <<>>, <<>>) IN
          /\ res.status # "ok" \/ mutation_set(res.frequency_lists) = {}
          /\ extracted' = IF res.status = "ok" THEN [res EXCEPT !.status = "exit"] ELSE res
    /\ pc' = "aborted"
    /\ UNCHANGED <<frequency_array, unique_mutations, call, orig, gff3_info,
                   annotation_type, gene_dict, n_tracks, coverage_files,
                   min_coverage, vcf_files, threshold, vcf_dict>>

\* line 156 is reached
ExtractReturns ==
    /\ pc = "extract"
    /\ LET res == extract_files(vcf_files, reference, threshold, 1, <<>>, <<>>) IN
          /\ res.status = "ok" /\ mutation_set(res.frequency_lists) # {}
          /\ extracted' = res
          /\ \E order \in IterationOrders(mutation_set(res.frequency_lists)) :
                unique_mutations' = sorted_by_pos(order)
    /\ pc' = "extracted"
    /\ UNCHANGED <<frequency_array, call, orig, gff3_info,
                   annotation_type, gene_dict, n_tracks, coverage_files,
                   min_coverage, vcf_files, threshold, vcf_dict>>

CreateFreqArray ==
    /\ pc = "extracted"
    /\ frequency_array' = create_freq_array(unique_mutations, extracted.frequency_lists)
    /\ pc' = "array_done"
    /\ UNCHANGED <<unique_mutations, call, orig, gff3_info,
                   annotation_type, gene_dict, n_tracks, coverage_files,
                   min_coverage, vcf_files, threshold, vcf_dict, extracted>>

NextFreq == ExtractAborts \/ ExtractReturns \/ CreateFreqArray

SpecFreq == InitFreq /\ [][NextFreq]_vars

(***************************************************************************)
(* Properties of the parsing stage.                                        *)
(***************************************************************************)
RECURSIVE TotalVariants(_)
TotalVariants(lines) ==
    IF lines = <<>> THEN 0
    ELSE length_variants(lines[1]) + TotalVariants(Tail(lines))

\* C6 as stated: after read_vcf every column of the record set (the first six,
\* MUT_TYPE_, every INFO key) has the same length, the sum over the selected
\* lines of their numbers of ALT alleles.
C6_ColumnsAligned ==
    (pc = "read_done" /\ vcf_files[1].header) =>
        \A key \in DOMAIN vcf_dict :
            Len(vcf_dict[key]) =
                TotalVariants(SelectLines(vcf_files[1].lines, reference))

(***************************************************************************)
(* Properties of the matrix stage.                                         *)
(***************************************************************************)
\* C2 as stated: when another file contributes variants, extract_vcf_data does
\* not abort on a file without a '#CHROM' line, and when it returns, that
\* file's mutation list is empty.
Contributes(j) ==
    /\ vcf_files[j].header
    /\ LET fl == frequency_list(read_vcf(vcf_files[j], reference), threshold, 1, <<>>)
       IN  fl.status = "ok" /\ fl.list # <<>>

C2_HeaderlessFileTolerated ==
    pc \in {"aborted", "extracted", "array_done"} =>
        \A i \in 1..Len(vcf_files) :
            (~vcf_files[i].header /\ \E j \in 1..Len(vcf_files) : Contributes(j)) =>
                /\ ~(extracted.status = "KeyError" /\ extracted.file = i)
                /\ extracted.status = "ok" => extracted.frequency_lists[i] = <<>>

Listed(i, m) ==
    \E k \in 1..Len(extracted.frequency_lists[i]) : extracted.frequency_lists[i][k][1] = m

FirstListed(i, m) ==
    LET l == extracted.frequency_lists[i]
        k == CHOOSE x \in 1..Len(l) : l[x][1] = m /\ \A y \in 1..(x - 1) : l[y][1] # m
    IN  l[k][2]

\* C8: the matrix has one row per input file, in input order, and one column
\* per entry of the axis, which is sorted by position; cell (i, j) is sample
\* i's frequency for axis[j] (the first it lists) when it lists that
\* MutationId and 0 otherwise; so the row of a file with a header and no line
\* for the reference is all zeros.
C8_FreqArrayCells ==
    pc = "array_done" =>
        /\ Len(frequency_array) = Len(vcf_files)
        /\ \A i \in 1..Len(vcf_files) :
              /\ extracted.file_names[i] = vcf_files[i].name
              /\ Len(frequency_array[i]) = Len(unique_mutations)
              /\ \A j \in 1..Len(unique_mutations) :
                    frequency_array[i][j] =
                        IF Listed(i, unique_mutations[j])
                        THEN FirstListed(i, unique_mutations[j]) ELSE 0
              /\ (vcf_files[i].header
                    /\ SelectLines(vcf_files[i].lines, reference) = <<>>) =>
                       \A j \in 1..Len(unique_mutations) : frequency_array[i][j] = 0
        /\ \A j, k \in 1..Len(unique_mutations) :
              j < k => /\ unique_mutations[j][1] <= unique_mutations[k][1]
                       /\ unique_mutations[j] # unique_mutations[k]

\* the second file has a header and only a line of another sequence: its row is
\* all zeros, beside a first row that holds two alleles of one position
C8_Witness ==
    /\ pc = "array_done"
    /\ vcf_files[2].header /\ Len(vcf_files[2].lines) = 1
    /\ SelectLines(vcf_files[2].lines, reference) = <<>>
    /\ Len(unique_mutations) = 2
    /\ unique_mutations[1][1] = unique_mutations[2][1]
    /\ frequency_array[1][1] > 0 /\ frequency_array[1][2] > 0
    /\ frequency_array[2] = <<0, 0>>

====
